---- MODULE Spec2Model ----
(***************************************************************************)
(* Notes backend: the in-memory notes repository                           *)
(* (api/repositories/notes_repository.py), the request payload schemas     *)
(* (api/models/schemas.py), the repository provider (api/dependencies.py)  *)
(* and the request handlers (api/routers/notes.py).                        *)
(*                                                                         *)
(* Spec     : one InMemoryNotesRepository instance driven by an arbitrary  *)
(*            sequence of repository calls.                                *)
(* HttpSpec : the request handlers, each obtaining its repository from     *)
(*            get_notes_repository.                                        *)
(* ConcSpec : one InMemoryNotesRepository instance called from two threads *)
(*            of the server's thread pool (the handlers are plain def      *)
(*            functions), a thread switch being possible between any two   *)
(*            accesses of _store.                                          *)
(***************************************************************************)
EXTENDS Integers, Sequences, FiniteSets, TLC

(***************************************************************************)
(* Bounds of the model.                                                    *)
(***************************************************************************)
\* largest reading of the clock
MaxClock == 1

\* the values uuid4().hex delivers in one run (hex strings)
Ids == {"3f9a", "c07e"}
Titles == {"Shopping", "Todo"}
Contents == {"Milk", "Report"}
TagLists == {<<>>, <<"home">>}

(***************************************************************************)
(* Python's Optional[T]: None is the empty tuple, a present value v is the *)
(* one-element tuple <<v>>.                                                *)
(***************************************************************************)
None == <<>>
Some(v) == <<v>>
Val(o) == o[1]

(***************************************************************************)
(* A field of a request body as the caller wrote it: left out, given as    *)
(* null, or given a value.                                                 *)
(***************************************************************************)
Unset == [kind |-> "unset"]
JNull == [kind |-> "null"]
JVal(v) == [kind |-> "value", v |-> v]

\* A field with default=None: left out or null both read back as None.
OptionalField(f) == IF f.kind = "value" THEN Some(f.v) ELSE None

\* schemas.py NoteCreate: title and content required strings, tags optional.
NoteCreate(raw) ==
    [title |-> raw.title.v, content |-> raw.content.v, tags |-> OptionalField(raw.tags)]

\* schemas.py NoteUpdate: every field Optional with default None.
NoteUpdate(raw) ==
    [title |-> OptionalField(raw.title),
     content |-> OptionalField(raw.content),
     tags |-> OptionalField(raw.tags)]

\* the request bodies that pass validation
CreateBodies ==
    [title : {JVal(t) : t \in Titles},
     content : {JVal(c) : c \in Contents},
     tags : {Unset, JNull} \cup {JVal(g) : g \in TagLists}]

\* (null is enumerated for tags; for title and content OptionalField reads
\* null exactly as it reads a field left out)
UpdateBodies ==
    [title : {Unset} \cup {JVal(t) : t \in Titles},
     content : {Unset} \cup {JVal(c) : c \in Contents},
     tags : {Unset, JNull} \cup {JVal(g) : g \in TagLists}]

NoBody == [title |-> Unset, content |-> Unset, tags |-> Unset]

(***************************************************************************)
(* The repository.  _store is a dict: here the sequence of its values in   *)
(* the dict's iteration (insertion) order, one Note per key.               *)
(***************************************************************************)
Note(id, title, content, tags, created_at, updated_at) ==
    [id |-> id, title |-> title, content |-> content, tags |-> tags,
     created_at |-> created_at, updated_at |-> updated_at]

InMemoryNotesRepository == <<>>

Keys(s) == {s[i].id : i \in DOMAIN s}

IndexOf(s, note_id) == CHOOSE i \in DOMAIN s : s[i].id = note_id

\* dict.get(key): the value or None
DictGet(s, note_id) ==
    IF note_id \in Keys(s) THEN Some(s[IndexOf(s, note_id)]) ELSE None

\* dict[key] = value: an existing key keeps its place, a new key goes last
DictSet(s, note_id, note) ==
    IF note_id \in Keys(s)
    THEN [s EXCEPT ![IndexOf(s, note_id)] = note]
    ELSE Append(s, note)

\* dict.pop(key, None)
DictPop(s, note_id) ==
    [store |-> SelectSeq(s, LAMBDA n : n.id # note_id), result |-> DictGet(s, note_id)]

\* sorted(values, key=updated_at, reverse=True): a stable sort, so notes
\* with equal keys stay in the order the dict yields them.
InsertByKey(acc, n) ==
    LET p == Cardinality({i \in DOMAIN acc : acc[i].updated_at >= n.updated_at})
    IN  SubSeq(acc, 1, p) \o <<n>> \o SubSeq(acc, p + 1, Len(acc))

RECURSIVE SortedDesc(_, _)
SortedDesc(acc, rest) ==
    IF rest = <<>> THEN acc ELSE SortedDesc(InsertByKey(acc, Head(rest)), Tail(rest))

\* variant: the values in dict order, the sort left out
list_notes_unsorted(s) == s

\* variant: key=lambda n: n.created_at
list_notes_by_created(s) ==
    LET Key(n) == [n EXCEPT !.updated_at = n.created_at]
        L == SortedDesc(<<>>, [i \in DOMAIN s |-> Key(s[i])])
    IN  [i \in DOMAIN L |-> CHOOSE n \in {s[j] : j \in DOMAIN s} : n.id = L[i].id]

list_notes(s) == SortedDesc(<<>>, s)

get_note(s, note_id) == DictGet(s, note_id)

\* variant: tags=payload.tags or []
create_note_default_tags(s, payload, now, note_id) ==
    LET tags == IF payload.tags = None THEN Some(<<>>) ELSE payload.tags
        note == Note(note_id, payload.title, payload.content, tags, now, now)
    IN  [store |-> DictSet(s, note_id, note), result |-> note]

\* variant: self._store = {note_id: note}
create_note_clobber(s, payload, now, note_id) ==
    LET note == Note(note_id, payload.title, payload.content, payload.tags, now, now)
    IN  [store |-> <<note>>, result |-> note]

create_note(s, payload, now, note_id) ==
    LET note == Note(note_id, payload.title, payload.content, payload.tags, now, now)
    IN  [store |-> DictSet(s, note_id, note), result |-> note]

\* variant: "tags": payload.tags (the retained-if-None test left out)
update_note_overwrite(s, note_id, payload, now) ==
    LET existing == DictGet(s, note_id)
    IN  IF existing = None
        THEN [store |-> s, result |-> None]
        ELSE LET e == Val(existing)
                 updated ==
                     [e EXCEPT
                        !.title = IF payload.title # None THEN Val(payload.title) ELSE e.title,
                        !.content = IF payload.content # None THEN Val(payload.content) ELSE e.content,
                        !.tags = payload.tags,
                        !.updated_at = now]
             IN  [store |-> DictSet(s, note_id, updated), result |-> Some(updated)]

\* variant: "tags": payload.tags if payload.tags else existing.tags
update_note_truthy(s, note_id, payload, now) ==
    LET existing == DictGet(s, note_id)
    IN  IF existing = None
        THEN [store |-> s, result |-> None]
        ELSE LET e == Val(existing)
                 updated ==
                     [e EXCEPT
                        !.title = IF payload.title # None THEN Val(payload.title) ELSE e.title,
                        !.content = IF payload.content # None THEN Val(payload.content) ELSE e.content,
                        !.tags = IF payload.tags # None /\ Val(payload.tags) # <<>>
                                 THEN payload.tags ELSE e.tags,
                        !.updated_at = now]
             IN  [store |-> DictSet(s, note_id, updated), result |-> Some(updated)]

\* variant: the "updated_at" entry left out of the update
update_note_stale(s, note_id, payload, now) ==
    LET existing == DictGet(s, note_id)
    IN  IF existing = None
        THEN [store |-> s, result |-> None]
        ELSE LET e == Val(existing)
                 updated ==
                     [e EXCEPT
                        !.title = IF payload.title # None THEN Val(payload.title) ELSE e.title,
                        !.content = IF payload.content # None THEN Val(payload.content) ELSE e.content,
                        !.tags = IF payload.tags # None THEN payload.tags ELSE e.tags]
             IN  [store |-> DictSet(s, note_id, updated), result |-> Some(updated)]

\* variant: "created_at" refreshed along with "updated_at"
update_note_recreated(s, note_id, payload, now) ==
    LET existing == DictGet(s, note_id)
    IN  IF existing = None
        THEN [store |-> s, result |-> None]
        ELSE LET e == Val(existing)
                 updated ==
                     [e EXCEPT
                        !.title = IF payload.title # None THEN Val(payload.title) ELSE e.title,
                        !.content = IF payload.content # None THEN Val(payload.content) ELSE e.content,
                        !.tags = IF payload.tags # None THEN payload.tags ELSE e.tags,
                        !.created_at = now,
                        !.updated_at = now]
             IN  [store |-> DictSet(s, note_id, updated), result |-> Some(updated)]

update_note(s, note_id, payload, now) ==
    LET existing == DictGet(s, note_id)
    IN  IF existing = None
        THEN [store |-> s, result |-> None]
        ELSE LET e == Val(existing)
                 updated ==
                     [e EXCEPT
                        !.title = IF payload.title # None THEN Val(payload.title) ELSE e.title,
                        !.content = IF payload.content # None THEN Val(payload.content) ELSE e.content,
                        !.tags = IF payload.tags # None THEN payload.tags ELSE e.tags,
                        !.updated_at = now]
             IN  [store |-> DictSet(s, note_id, updated), result |-> Some(updated)]

\* variant: self._store.get(note_id) is not None
delete_note_kept(s, note_id) ==
    [store |-> s, result |-> DictGet(s, note_id) # None]

\* variant: the pop's result ignored, True returned
delete_note_always(s, note_id) ==
    [store |-> DictPop(s, note_id).store, result |-> TRUE]

\* variant: self._store.pop(note_id, None) is None
delete_note_inverted(s, note_id) ==
    LET popped == DictPop(s, note_id)
    IN  [store |-> popped.store, result |-> popped.result = None]

\* variant: self._store.clear() once the note was found
delete_note_clear(s, note_id) ==
    LET popped == DictPop(s, note_id)
    IN  [store |-> IF popped.result # None THEN <<>> ELSE s, result |-> popped.result # None]

delete_note(s, note_id) ==
    LET popped == DictPop(s, note_id)
    IN  [store |-> popped.store, result |-> popped.result # None]

(***************************************************************************)
(* State.                                                                  *)
(***************************************************************************)
VARIABLES
    store,      \* InMemoryNotesRepository._store of the instance under study
    clock,      \* the last reading of datetime.now(timezone.utc)
    issued,     \* the values uuid4().hex has delivered so far
    live,       \* history: ids create_note returned, minus those delete_note removed
    created,    \* history: id -> the note create_note returned for it, until an
                \* update_note or delete_note call names that id
    last,       \* history: the last repository call, its arguments and what it returned
    posted,     \* HTTP history: ids of 201 responses with no 204 for them since
    resp,       \* HTTP: the last request and the response sent to it
    th          \* threads: each thread's call in progress, its locals, or its last call

vars == <<store, clock, issued, live, created, last, posted, resp, th>>

httpVars == <<posted, resp>>
concVars == <<th>>

Threads == {"t1", "t2"}

\* a thread's frame: where it is in its call, the call's arguments, the
\* locals existing and updated of update_note, whether the call found its
\* note, and whether another update_note call was in progress during it
Frame(pc, op, id, raw, existing, updated, found, overlap) ==
    [pc |-> pc, op |-> op, id |-> id, raw |-> raw, existing |-> existing,
     updated |-> updated, found |-> found, overlap |-> overlap]

Idle == Frame("idle", "none", "", NoBody, None, None, FALSE, FALSE)

Call(op, id, raw, result) == [op |-> op, id |-> id, raw |-> raw, result |-> result]

NoId == ""
NoCall == Call("none", NoId, NoBody, None)
NoResp == [handler |-> "none", id |-> NoId, raw |-> NoBody, status |-> 0, body |-> None]

Init ==
    /\ store = InMemoryNotesRepository
    /\ clock = 0
    /\ issued = {}
    /\ live = {}
    /\ created = [i \in Ids |-> None]
    /\ last = NoCall
    /\ posted = {}
    /\ resp = NoResp
    /\ th = [t \in Threads |-> Idle]

\* datetime.now(timezone.utc): a reading not earlier than the previous one;
\* two successive readings may be equal.
Readings == {t \in {clock, clock + 1} : t <= MaxClock}

\* uuid.uuid4().hex: a value not delivered before.  The code compares ids
\* for equality only, so one representative of the unused values is drawn.
CanIssue == Ids \ issued # {}

\* variant: a value no stored note carries, delivered before or not
uuid4_reused == CHOOSE i \in Ids \ Keys(store) : TRUE

uuid4 == CHOOSE i \in Ids \ issued : TRUE

(***************************************************************************)
(* Calls on the one repository instance.                                   *)
(***************************************************************************)
ListNotes ==
    /\ last' = Call("list", NoId, NoBody, list_notes(store))
    /\ UNCHANGED <<store, clock, issued, live, created, httpVars, concVars>>

GetNote ==
    \E id \in Ids :
        /\ last' = Call("get", id, NoBody, get_note(store, id))
        /\ UNCHANGED <<store, clock, issued, live, created, httpVars, concVars>>

CreateNote ==
    \E raw \in CreateBodies, now \in Readings :
        LET id == uuid4
            r == create_note(store, NoteCreate(raw), now, id)
        IN  /\ CanIssue
            /\ store' = r.store
            /\ clock' = now
            /\ issued' = issued \cup {id}
            /\ live' = live \cup {r.result.id}
            /\ created' = [created EXCEPT ![r.result.id] = Some(r.result)]
            /\ last' = Call("create", NoId, raw, Some(r.result))
            /\ UNCHANGED <<httpVars, concVars>>

UpdateNote ==
    \E id \in Ids, raw \in UpdateBodies :
        \* the clock is read only once the note was found
        \E now \in (IF id \in Keys(store) THEN Readings ELSE {clock}) :
            LET r == update_note(store, id, NoteUpdate(raw), now)
            IN  /\ store' = r.store
                /\ clock' = now
                /\ created' = [created EXCEPT ![id] = None]
                /\ last' = Call("update", id, raw, r.result)
                /\ UNCHANGED <<issued, live, httpVars, concVars>>

DeleteNote ==
    \E id \in Ids :
        LET r == delete_note(store, id)
        IN  /\ store' = r.store
            /\ created' = [created EXCEPT ![id] = None]
            /\ live' = IF r.result THEN live \ {id} ELSE live
            /\ last' = Call("delete", id, NoBody, Some(r.result))
            /\ UNCHANGED <<clock, issued, httpVars, concVars>>

Next == ListNotes \/ GetNote \/ CreateNote \/ UpdateNote \/ DeleteNote

Spec == Init /\ [][Next]_vars

(***************************************************************************)
(* The request handlers.  Each handler's repo parameter is                 *)
(* Depends(get_notes_repository): the provider runs once per request.      *)
(***************************************************************************)
get_notes_repository == InMemoryNotesRepository

HTTP_200_OK == 200
HTTP_201_CREATED == 201
HTTP_204_NO_CONTENT == 204
HTTP_404_NOT_FOUND == 404

\* a request (handler, path id, body) and the response to it (status, body)
Response(handler, id, raw, status, body) ==
    [handler |-> handler, id |-> id, raw |-> raw, status |-> status, body |-> body]

repoVars == <<store, live, created, last>>

HttpListNotes ==
    LET repo == get_notes_repository
    IN  /\ resp' = Response("list_notes", NoId, NoBody, HTTP_200_OK, list_notes(repo))
        /\ UNCHANGED <<posted, clock, issued, repoVars, concVars>>

HttpCreateNote ==
    \E raw \in CreateBodies, now \in Readings :
        LET repo == get_notes_repository
            r == create_note(repo, NoteCreate(raw), now, uuid4)
        IN  /\ CanIssue
            /\ clock' = now
            /\ issued' = issued \cup {uuid4}
            /\ resp' = Response("create_note", r.result.id, raw, HTTP_201_CREATED, Some(r.result))
            /\ posted' = posted \cup {r.result.id}
            /\ UNCHANGED <<repoVars, concVars>>

HttpGetNote ==
    \E id \in Ids :
        LET repo == get_notes_repository
            note == get_note(repo, id)
        IN  /\ resp' = IF note = None
                       THEN Response("get_note", id, NoBody, HTTP_404_NOT_FOUND, None)
                       ELSE Response("get_note", id, NoBody, HTTP_200_OK, note)
            /\ UNCHANGED <<posted, clock, issued, repoVars, concVars>>

HttpUpdateNote ==
    \E id \in Ids, raw \in UpdateBodies :
        LET repo == get_notes_repository
        IN  \E now \in (IF id \in Keys(repo) THEN Readings ELSE {clock}) :
                LET r == update_note(repo, id, NoteUpdate(raw), now)
                IN  /\ clock' = now
                    /\ resp' = IF r.result = None
                               THEN Response("update_note", id, raw, HTTP_404_NOT_FOUND, None)
                               ELSE Response("update_note", id, raw, HTTP_200_OK, r.result)
                    /\ UNCHANGED <<posted, issued, repoVars, concVars>>

HttpDeleteNote ==
    \E id \in Ids :
        LET repo == get_notes_repository
            deleted == delete_note(repo, id).result
        IN  /\ resp' = IF ~deleted
                       THEN Response("delete_note", id, NoBody, HTTP_404_NOT_FOUND, None)
                       ELSE Response("delete_note", id, NoBody, HTTP_204_NO_CONTENT, None)
            /\ posted' = IF deleted THEN posted \ {id} ELSE posted
            /\ UNCHANGED <<clock, issued, repoVars, concVars>>

HttpNext ==
    HttpListNotes \/ HttpCreateNote \/ HttpGetNote \/ HttpUpdateNote \/ HttpDeleteNote

HttpSpec == Init /\ [][HttpNext]_vars

(***************************************************************************)
(* Two threads on one repository instance.  get_note, create_note and      *)
(* delete_note touch _store once (dict.get, one item assignment, dict.pop).*)
(* update_note reads _store (line 84), builds the copy from its local      *)
(* existing (lines 87-92) and assigns it to _store (line 93): three steps  *)
(* between which the other thread may run.                                 *)
(***************************************************************************)
\* the bodies the threads send: one note to create, an update of its title
\* alone and an update of its content alone
ConcCreateBodies == {[title |-> JVal("Shopping"), content |-> JVal("Milk"), tags |-> Unset]}

ConcUpdateBodies ==
    {[title |-> JVal("Todo"), content |-> Unset, tags |-> Unset],
     [title |-> Unset, content |-> JVal("Report"), tags |-> Unset]}

Ready(t) == th[t].pc \in {"idle", "done"}
InFlight(t) == th[t].pc \in {"read", "built"}

Done(op, id, raw, found, overlap) == Frame("done", op, id, raw, None, None, found, overlap)

TGetNote(t) ==
    \E id \in Ids :
        /\ Ready(t)
        /\ th' = [th EXCEPT ![t] = Done("get", id, NoBody, get_note(store, id) # None, FALSE)]
        /\ UNCHANGED <<store, clock, issued, live, created, last, httpVars>>

TCreateNote(t) ==
    \E raw \in ConcCreateBodies, now \in Readings :
        LET r == create_note(store, NoteCreate(raw), now, uuid4)
        IN  /\ Ready(t)
            /\ CanIssue
            /\ store' = r.store
            /\ clock' = now
            /\ issued' = issued \cup {uuid4}
            /\ live' = live \cup {r.result.id}
            /\ th' = [th EXCEPT ![t] = Done("create", r.result.id, raw, TRUE, FALSE)]
            /\ UNCHANGED <<created, last, httpVars>>

TDeleteNote(t) ==
    \E id \in Ids :
        LET r == delete_note(store, id)
        IN  /\ Ready(t)
            /\ store' = r.store
            /\ live' = IF r.result THEN live \ {id} ELSE live
            /\ th' = [th EXCEPT ![t] = Done("delete", id, NoBody, r.result, FALSE)]
            /\ UNCHANGED <<clock, issued, created, last, httpVars>>

\* existing = self._store.get(note_id); if not existing: return None
TUpdateRead(t) ==
    \E id \in Ids, raw \in ConcUpdateBodies :
        LET existing == DictGet(store, id)
            others == \E u \in Threads \ {t} : InFlight(u)
        IN  /\ Ready(t)
            /\ th' = [u \in Threads |->
                        IF u = t
                        THEN IF existing = None
                             THEN Done("update", id, raw, FALSE, FALSE)
                             ELSE Frame("read", "update", id, raw, existing, None, FALSE, others)
                        ELSE IF InFlight(u) /\ existing # None
                             THEN [th[u] EXCEPT !.overlap = TRUE]
                             ELSE th[u]]
            /\ UNCHANGED <<store, clock, issued, live, created, last, httpVars>>

\* updated = existing.model_copy(update={...,"updated_at": datetime.now(timezone.utc)})
TUpdateBuild(t) ==
    \E now \in Readings :
        LET f == th[t]
            updated == update_note(<<Val(f.existing)>>, f.id, NoteUpdate(f.raw), now).result
        IN  /\ f.pc = "read"
            /\ clock' = now
            /\ th' = [th EXCEPT ![t] = [f EXCEPT !.pc = "built", !.existing = None,
                                                 !.updated = updated]]
            /\ UNCHANGED <<store, issued, live, created, last, httpVars>>

\* self._store[note_id] = updated; return updated
TUpdateWrite(t) ==
    LET f == th[t]
    IN  /\ f.pc = "built"
        /\ store' = DictSet(store, f.id, Val(f.updated))
        /\ th' = [th EXCEPT ![t] = Done("update", f.id, f.raw, TRUE, f.overlap)]
        /\ UNCHANGED <<clock, issued, live, created, last, httpVars>>

ConcNext ==
    \E t \in Threads :
        \/ TGetNote(t)
        \/ TCreateNote(t)
        \/ TDeleteNote(t)
        \/ TUpdateRead(t)
        \/ TUpdateBuild(t)
        \/ TUpdateWrite(t)

ConcSpec == Init /\ [][ConcNext]_vars

(***************************************************************************)
(* Properties.                                                             *)
(***************************************************************************)
Notes(s) == {s[i] : i \in DOMAIN s}
Stored(s, id) == CHOOSE n \in Notes(s) : n.id = id
SortedByUpdatedDesc(L) ==
    \A i \in 1..(Len(L) - 1) : L[i].updated_at >= L[i + 1].updated_at

\* C1: in every state of one repository instance, whatever create_note,
\* update_note and delete_note calls led to it, list_notes() is sorted by
\* updated_at descending: each adjacent pair (a, b) has
\* a.updated_at >= b.updated_at; so is every list a list_notes call returned.
C1_ListSorted ==
    /\ SortedByUpdatedDesc(list_notes(store))
    /\ last.op = "list" => SortedByUpdatedDesc(last.result)

\* a list_notes call returned two notes in the opposite of the dict's order
C1_Witness ==
    /\ last.op = "list"
    /\ Len(last.result) = 2
    /\ last.result[1].updated_at > last.result[2].updated_at
    /\ last.result[1] = store[2]

\* C2: update_note on an existing note is a field-level merge: for title,
\* content and tags independently, a field the payload gives a value replaces
\* the stored one and a field the payload leaves out keeps the stored one;
\* the merged note is stored and returned.
C2_FieldMerge ==
    [][(last'.op = "update" /\ last'.id \in Keys(store)) =>
        LET raw == last'.raw
            old == Stored(store, last'.id)
            new == Stored(store', last'.id)
        IN  /\ last'.id \in Keys(store')
            /\ last'.result = Some(new)
            /\ raw.title.kind = "value" => new.title = raw.title.v
            /\ raw.title.kind = "unset" => new.title = old.title
            /\ raw.content.kind = "value" => new.content = raw.content.v
            /\ raw.content.kind = "unset" => new.content = old.content
            /\ raw.tags.kind = "value" => new.tags = Some(raw.tags.v)
            /\ raw.tags.kind = "unset" => new.tags = old.tags
      ]_vars

\* an update giving only a title was applied to a stored note that has tags
C2_Witness ==
    /\ last.op = "update"
    /\ last.result # None
    /\ last.raw.title.kind = "value"
    /\ last.raw.content.kind = "unset"
    /\ last.raw.tags.kind = "unset"
    /\ Val(last.result).title = last.raw.title.v
    /\ Val(last.result).tags # None
    /\ Val(last.result).updated_at > Val(last.result).created_at

\* C3 (as stated): a note created by POST /notes and not deleted since is
\* seen by later requests: GET /notes/{id} for it is not answered 404.
C3_StoreShared ==
    (resp.handler = "get_note" /\ resp.id \in posted) => resp.status # HTTP_404_NOT_FOUND

\* C4: a note with a given id is in the store (get_note returns it, and
\* list_notes holds it exactly once) if and only if create_note returned that
\* id earlier and no delete_note for it has returned true since.
C4_InStoreIffLive ==
    \A id \in Ids :
        LET L == list_notes(store)
        IN  /\ (get_note(store, id) # None) <=> (id \in live)
            /\ Cardinality({i \in DOMAIN L : L[i].id = id}) = (IF id \in live THEN 1 ELSE 0)

\* one note was created and deleted, another is still in the store
C4_Witness ==
    /\ issued \ live # {}
    /\ live # {}
    /\ last.op = "delete"
    /\ last.result = Some(TRUE)

\* C5 (as stated): an update whose tags field is explicitly null does not
\* behave like one whose tags field is left out (on a note that has tags the
\* stored tags do not stay as they were), and an update whose tags field is
\* the empty sequence stores the empty sequence.
C5_NullDiffersFromAbsent ==
    [][(last'.op = "update" /\ last'.id \in Keys(store) /\ last'.id \in Keys(store')) =>
        LET raw == last'.raw
            old == Stored(store, last'.id)
            new == Stored(store', last'.id)
        IN  /\ (raw.tags.kind = "null" /\ old.tags # None) => new.tags # old.tags
            /\ (raw.tags.kind = "value" /\ raw.tags.v = <<>>) => new.tags = Some(<<>>)
      ]_vars

\* C5 (amended): update_note treats a tags field that is explicitly null
\* exactly like one that is left out, keeping the stored tags; a tags field
\* that is the empty sequence replaces the stored tags with the empty
\* sequence, which is not the same as no tags.
C5_NullIsAbsent ==
    [][(last'.op = "update" /\ last'.id \in Keys(store)) =>
        LET raw == last'.raw
            old == Stored(store, last'.id)
            new == Stored(store', last'.id)
        IN  /\ last'.id \in Keys(store')
            /\ raw.tags.kind \in {"null", "unset"} =>
                    new = Val(update_note(store, last'.id,
                                          NoteUpdate([raw EXCEPT !.tags = Unset]), clock').result)
            /\ raw.tags.kind = "null" => new.tags = old.tags
            /\ (raw.tags.kind = "value" /\ raw.tags.v = <<>>) =>
                    (new.tags = Some(<<>>) /\ new.tags # None)
      ]_vars

\* an update with tags: null was applied to a note that has tags, and the
\* tags are still there
C5_Witness ==
    /\ last.op = "update"
    /\ last.result # None
    /\ last.raw.tags.kind = "null"
    /\ Val(last.result).tags = Some(<<"home">>)

\* C6: update_note on an existing note with every field left out stores and
\* returns the prior note with the same id and created_at and every other
\* field as it was, except updated_at, which is the call's clock reading and
\* is >= the previous updated_at.
C6_EmptyUpdate ==
    [][(last'.op = "update" /\ last'.raw = NoBody /\ last'.id \in Keys(store)) =>
        LET old == Stored(store, last'.id)
            new == Stored(store', last'.id)
        IN  /\ last'.id \in Keys(store')
            /\ last'.result = Some(new)
            /\ new = [old EXCEPT !.updated_at = clock']
            /\ new.id = old.id
            /\ new.created_at = old.created_at
            /\ new.updated_at >= old.updated_at
      ]_vars

\* an update with no field was applied to a stored note at a later reading
C6_Witness ==
    /\ last.op = "update"
    /\ last.raw = NoBody
    /\ last.result # None
    /\ Val(last.result).updated_at > Val(last.result).created_at

\* C7: create_note returns and stores a note whose id is non-empty and
\* differs from the id of every other live note, whose created_at equals its
\* updated_at, and whose title, content and tags are the payload's, tags
\* being None when the payload supplies none.
C7_CreateNote ==
    [][(last'.op = "create") =>
        LET raw == last'.raw
            r == Val(last'.result)
        IN  /\ r.id # ""
            /\ r.id \notin Keys(store)
            /\ {n \in Notes(store') : n.id = r.id} = {r}
            /\ get_note(store', r.id) = Some(r)
            /\ r.created_at = r.updated_at
            /\ r.title = raw.title.v
            /\ r.content = raw.content.v
            /\ r.tags = IF raw.tags.kind = "value" THEN Some(raw.tags.v) ELSE None
      ]_vars

\* a second note was created from a payload without tags
C7_Witness ==
    /\ last.op = "create"
    /\ Len(store) = 2
    /\ last.raw.tags.kind = "unset"
    /\ Val(last.result).tags = None
    /\ store[2] = Val(last.result)

\* C8: for every note create_note returned, as long as no update_note or
\* delete_note call has named its id, get_note(id) returns a note equal to
\* the one create_note returned, whatever other calls were made.
C8_GetReturnsCreated ==
    /\ \A id \in Ids : created[id] # None => get_note(store, id) = created[id]
    /\ (last.op = "get" /\ created[last.id] # None) => last.result = created[last.id]

\* get_note returned a note as created while another stored note has been updated
C8_Witness ==
    /\ last.op = "get"
    /\ created[last.id] # None
    /\ last.result = created[last.id]
    /\ \E o \in Keys(store) \ {last.id} :
          /\ created[o] = None
          /\ Stored(store, o).updated_at > Stored(store, o).created_at

\* C9: delete_note(id) returns true exactly when a note with that id was in
\* the store, and removes that note and no other; afterwards get_note(id)
\* returns None and a second delete_note(id) returns false.
C9_DeleteNote ==
    [][(last'.op = "delete") =>
        LET id == last'.id
        IN  /\ last'.result = Some(id \in Keys(store))
            /\ Notes(store') = {n \in Notes(store) : n.id # id}
            /\ get_note(store', id) = None
            /\ delete_note(store', id).result = FALSE
      ]_vars

\* a delete_note call removed a note and left another in the store
C9_Witness ==
    /\ last.op = "delete"
    /\ last.result = Some(TRUE)
    /\ last.id \notin Keys(store)
    /\ store # <<>>

\* C10: after every call, every stored note has updated_at >= created_at,
\* and a note that stays in the store keeps its created_at.
C10_Timestamps ==
    [][/\ \A n \in Notes(store') : n.updated_at >= n.created_at
       /\ \A id \in Keys(store) \cap Keys(store') :
             Stored(store', id).created_at = Stored(store, id).created_at
      ]_vars

\* a note created at one reading was updated at a later one
C10_Witness ==
    /\ last.op = "update"
    /\ last.result # None
    /\ Val(last.result) \in Notes(store)
    /\ Val(last.result).created_at < Val(last.result).updated_at
    /\ Val(last.result).updated_at = clock

\* C11 (as stated): immediately after a successful create_note or update_note
\* of a note, list_notes() returns that note as its first element.
C11_TouchedFirst ==
    (last.op \in {"create", "update"} /\ last.result # None) =>
        list_notes(store)[1] = Val(last.result)

\* C11 (amended): immediately after a successful create_note or update_note
\* of a note, no note has a later updated_at than it, list_notes() lists
\* before it only notes whose updated_at equals its own, and it is the first
\* element whenever every other note's updated_at is strictly earlier.
C11_TouchedFirstUpToTies ==
    (last.op \in {"create", "update"} /\ last.result # None) =>
        LET n == Val(last.result)
            L == list_notes(store)
        IN  /\ \E k \in DOMAIN L : L[k] = n
            /\ \A m \in Notes(store) : m.updated_at <= n.updated_at
            /\ \A i \in DOMAIN L :
                  (\E k \in DOMAIN L : i < k /\ L[k] = n) => L[i].updated_at = n.updated_at
            /\ (\A m \in Notes(store) : m.id # n.id => m.updated_at < n.updated_at)
                  => L[1] = n

\* the note stored second was updated at a later reading and is now listed first
C11_Witness ==
    /\ last.op = "update"
    /\ last.result # None
    /\ Len(store) = 2
    /\ store[2] = Val(last.result)
    /\ store[1].updated_at < store[2].updated_at
    /\ list_notes(store)[1] = Val(last.result)

\* C12: create_note never returns an id an earlier create_note on the same
\* store returned, whether that note is still stored or was deleted, and it
\* leaves every note that was stored in the store: no create_note overwrites
\* an existing note.
C12_IdsNeverReused ==
    [][(last'.op = "create") =>
        LET r == Val(last'.result)
        IN  /\ r.id \notin issued
            /\ r.id \notin Keys(store)
            /\ \A n \in Notes(store) : n \in Notes(store')
            /\ Len(store') = Len(store) + 1
      ]_vars

\* a note was created after the note created before it had been deleted
C12_Witness ==
    /\ last.op = "create"
    /\ issued = Ids
    /\ issued \ live # {}
    /\ Keys(store) = {Val(last.result).id}

\* C13: get_note and update_note on an id that is not in the store return
\* None and delete_note returns false, each as an ordinary return value, and
\* the store is left exactly as it was.
C13_NotFoundIsAValue ==
    [][(last'.op \in {"get", "update", "delete"} /\ last'.id \notin Keys(store)) =>
        /\ store' = store
        /\ last'.op \in {"get", "update"} => last'.result = None
        /\ last'.op = "delete" => last'.result = Some(FALSE)
      ]_vars

\* update_note was called for an id that is not stored while another note is
C13_Witness ==
    /\ last.op = "update"
    /\ last.result = None
    /\ last.id \notin Keys(store)
    /\ store # <<>>

\* C17: get_note and list_notes leave the store unchanged; create_note,
\* update_note(id, ...) and delete_note(id) leave every stored note other than
\* the created or targeted one unchanged in every field, updated_at included,
\* and add or remove no other note.
C17_Frame ==
    [][/\ last'.op \in {"get", "list"} => store' = store
       /\ last'.op = "create" =>
             {n \in Notes(store') : n.id # Val(last'.result).id} = Notes(store)
       /\ last'.op \in {"update", "delete"} =>
             {n \in Notes(store') : n.id # last'.id} = {n \in Notes(store) : n.id # last'.id}
      ]_vars

\* a note was deleted and the other stored note is still as create_note returned it
C17_Witness ==
    /\ last.op = "delete"
    /\ last.result = Some(TRUE)
    /\ \E o \in Keys(store) : o # last.id /\ created[o] = Some(Stored(store, o))

\* C14 (as stated): on one store instance used by concurrent callers no update
\* is lost: when two update_note calls on the same live note have run
\* concurrently, one setting only title and the other only content, the stored
\* note afterwards carries both the new title and the new content.
C14_NoLostUpdate ==
    \A t \in Threads : \A u \in Threads \ {t} :
        ( /\ th[t].pc = "done" /\ th[t].op = "update" /\ th[t].found /\ th[t].overlap
          /\ th[u].pc = "done" /\ th[u].op = "update" /\ th[u].found /\ th[u].overlap
          /\ th[t].id = th[u].id
          /\ th[t].raw.title.kind = "value" /\ th[t].raw.content.kind = "unset"
          /\ th[u].raw.content.kind = "value" /\ th[u].raw.title.kind = "unset"
          /\ th[t].id \in Keys(store) )
        => /\ Stored(store, th[t].id).title = th[t].raw.title.v
           /\ Stored(store, th[t].id).content = th[u].raw.content.v

\* C15 (as stated): once delete_note(id) has returned true the note is not in
\* the store again, whatever update_note(id, ...) call was in progress:
\* get_note(id) returns None.
C15_NoResurrection ==
    \A id \in issued \ live : get_note(store, id) = None

====
